---- MODULE Spec2Model ----
(***************************************************************************)
(* Model of jilu's src/git.rs: the commit walker `commits`, the tag        *)
(* collector `tags`, and the converters (TryFrom impls) they call.         *)
(*                                                                         *)
(* Text is a sequence of one-character strings, Option<T> is a sequence of *)
(* length at most one (None == <<>>, Some(x) == <<x>>), Result<T, E> is a  *)
(* record [ok |-> TRUE, val |-> v] or [ok |-> FALSE, err |-> e].           *)
(***************************************************************************)
EXTENDS Integers, Sequences, FiniteSets, TLC

\* ------------------------------------------------------------------------
\* Bounds of the model
\* ------------------------------------------------------------------------

\* largest number of commit objects in a generated commit graph
MaxCommits == 3

\* largest number of tag refs in a generated repository
MaxRefs == 2

\* ------------------------------------------------------------------------
\* Option, Result, Error
\* ------------------------------------------------------------------------

None == <<>>

Some(x) == <<x>>

IsSome(o) == Len(o) = 1

Unwrap(o) == o[1]

Ok(v) == [ok |-> TRUE, val |-> v]

Err(e) == [ok |-> FALSE, err |-> e]

\* crate::Error, by variant. "Git" is the variant git2::Error converts into.
Utf8Error == "Utf8Error"

InvalidTag == "InvalidTag"

SemVerError == "SemVer"

GitError == "Git"

\* ------------------------------------------------------------------------
\* semver::Version, as git.rs uses it (Version::parse, Ord::cmp)
\* ------------------------------------------------------------------------

Digits == <<"0", "1", "2", "3", "4", "5", "6", "7", "8", "9">>

\* ASCII order of the characters a pre-release identifier may hold
IdentChars == <<"-", "0", "1", "2", "3", "4", "5", "6", "7", "8", "9",
                "a", "b", "c", "e", "i", "n", "o", "r", "s", "t", "v">>

IsDigit(c) == \E i \in 1..Len(Digits) : Digits[i] = c

DigitVal(c) == (CHOOSE i \in 1..Len(Digits) : Digits[i] = c) - 1

IsIdentChar(c) == \E i \in 1..Len(IdentChars) : IdentChars[i] = c

CharRank(c) == CHOOSE i \in 1..Len(IdentChars) : IdentChars[i] = c

AllDigits(s) == \A i \in 1..Len(s) : IsDigit(s[i])

RECURSIVE NumVal(_)
NumVal(s) == IF s = <<>> THEN 0
             ELSE 10 * NumVal(SubSeq(s, 1, Len(s) - 1)) + DigitVal(s[Len(s)])

\* index of the first occurrence of c in s, 0 when there is none
FirstIndex(s, c) ==
    IF \E i \in 1..Len(s) : s[i] = c
    THEN CHOOSE i \in 1..Len(s) : s[i] = c /\ \A j \in 1..(i - 1) : s[j] # c
    ELSE 0

\* s split at every occurrence of c
RECURSIVE Split(_, _)
Split(s, c) ==
    LET i == FirstIndex(s, c)
    IN  IF i = 0 THEN <<s>>
        ELSE <<SubSeq(s, 1, i - 1)>> \o Split(SubSeq(s, i + 1, Len(s)), c)

\* a numeric identifier: digits, no leading zero
IsNumeric(s) == /\ Len(s) > 0
                /\ AllDigits(s)
                /\ (Len(s) > 1 => s[1] # "0")

\* a pre-release identifier: non-empty, [0-9A-Za-z-], numeric ones without
\* leading zero
IsPreIdent(s) == /\ Len(s) > 0
                 /\ \A i \in 1..Len(s) : IsIdentChar(s[i])
                 /\ (AllDigits(s) => IsNumeric(s))

IsBuildIdent(s) == /\ Len(s) > 0
                   /\ \A i \in 1..Len(s) : IsIdentChar(s[i])

\* Version::parse: MAJOR.MINOR.PATCH[-PRE][+BUILD]
VersionParse(s) ==
    LET plus  == FirstIndex(s, "+")
        main  == IF plus = 0 THEN s ELSE SubSeq(s, 1, plus - 1)
        build == IF plus = 0 THEN <<>> ELSE Split(SubSeq(s, plus + 1, Len(s)), ".")
        dash  == FirstIndex(main, "-")
        core  == IF dash = 0 THEN main ELSE SubSeq(main, 1, dash - 1)
        pre   == IF dash = 0 THEN <<>> ELSE Split(SubSeq(main, dash + 1, Len(main)), ".")
        nums  == Split(core, ".")
    IN  IF /\ Len(nums) = 3
           /\ \A i \in 1..3 : IsNumeric(nums[i])
           /\ \A i \in 1..Len(pre) : IsPreIdent(pre[i])
           /\ \A i \in 1..Len(build) : IsBuildIdent(build[i])
        THEN Ok([major |-> NumVal(nums[1]), minor |-> NumVal(nums[2]),
                 patch |-> NumVal(nums[3]), pre |-> pre])
        ELSE Err(SemVerError)

\* Ordering results
Less == "Less"

Equal == "Equal"

Greater == "Greater"

CmpInt(a, b) == IF a < b THEN Less ELSE IF a > b THEN Greater ELSE Equal

\* ASCII comparison of two identifiers
RECURSIVE CmpText(_, _)
CmpText(a, b) ==
    IF a = <<>> /\ b = <<>> THEN Equal
    ELSE IF a = <<>> THEN Less
    ELSE IF b = <<>> THEN Greater
    ELSE LET c == CmpInt(CharRank(Head(a)), CharRank(Head(b)))
         IN  IF c # Equal THEN c ELSE CmpText(Tail(a), Tail(b))

\* precedence of two pre-release identifiers: numeric below alphanumeric,
\* numeric by value, alphanumeric in ASCII order
CmpIdent(a, b) ==
    IF AllDigits(a) /\ AllDigits(b) THEN CmpInt(NumVal(a), NumVal(b))
    ELSE IF AllDigits(a) THEN Less
    ELSE IF AllDigits(b) THEN Greater
    ELSE CmpText(a, b)

RECURSIVE CmpIdents(_, _)
CmpIdents(p, q) ==
    IF p = <<>> /\ q = <<>> THEN Equal
    ELSE IF p = <<>> THEN Less
    ELSE IF q = <<>> THEN Greater
    ELSE LET c == CmpIdent(Head(p), Head(q))
         IN  IF c # Equal THEN c ELSE CmpIdents(Tail(p), Tail(q))

\* a version without pre-release is above the same version with one
CmpPre(p, q) ==
    IF p = <<>> /\ q = <<>> THEN Equal
    ELSE IF p = <<>> THEN Greater
    ELSE IF q = <<>> THEN Less
    ELSE CmpIdents(p, q)

\* Ord::cmp of semver::Version
VersionCmp(a, b) ==
    IF a.major # b.major THEN CmpInt(a.major, b.major)
    ELSE IF a.minor # b.minor THEN CmpInt(a.minor, b.minor)
    ELSE IF a.patch # b.patch THEN CmpInt(a.patch, b.patch)
    ELSE CmpPre(a.pre, b.pre)

\* StripV with every leading "v" removed instead of one
RECURSIVE StripV_All(_)
StripV_All(name) ==
    IF Len(name) > 0 /\ name[1] = "v" THEN StripV_All(Tail(name)) ELSE name

\* the `if name.starts_with('v') { &name[1..] } else { &name }` argument
StripV(name) == IF Len(name) > 0 /\ name[1] = "v" THEN Tail(name) ELSE name

\* ------------------------------------------------------------------------
\* Text helpers
\* ------------------------------------------------------------------------

HexDigits == <<"0", "1", "2", "3", "4", "5", "6", "7",
               "8", "9", "a", "b", "c", "d", "e", "f">>

\* Oid::to_string: the hex form of an object id (one byte wide in the model)
OidToString(oid) == <<HexDigits[(oid \div 16) + 1], HexDigits[(oid % 16) + 1]>>

IsWhitespace(c) == c \in {" ", "\n", "\t"}

\* str::trim_end
RECURSIVE TrimEnd(_)
TrimEnd(s) == IF s # <<>> /\ IsWhitespace(s[Len(s)])
              THEN TrimEnd(SubSeq(s, 1, Len(s) - 1))
              ELSE s

\* ------------------------------------------------------------------------
\* Converters (the TryFrom impls)
\* ------------------------------------------------------------------------

\* TryFrom<git2::Signature> for Signature. A raw signature is
\* [name, email : Option<text>, when : Int]; a field that is not valid UTF-8
\* reads as None.
SignatureTryFrom(signature) ==
    IF ~IsSome(signature.email) THEN Err(Utf8Error)
    ELSE IF ~IsSome(signature.name) THEN Err(Utf8Error)
    ELSE Ok([email |-> Unwrap(signature.email),
             name  |-> Unwrap(signature.name),
             time  |-> signature.when])

\* TryFrom<git2::Commit> for Commit. A raw commit is
\* [kind, oid, parents, shortId : Result<Option<text>>, message : Option<text>,
\*  author, committer : raw signature, time : Int, readable : BOOLEAN];
\* the fields are evaluated in the order the struct literal lists them.
CommitTryFrom(commit) ==
    LET author    == SignatureTryFrom(commit.author)
        committer == SignatureTryFrom(commit.committer)
    IN  IF ~commit.shortId.ok THEN Err(GitError)
        ELSE IF ~IsSome(commit.shortId.val) THEN Err(Utf8Error)
        ELSE IF ~IsSome(commit.message) THEN Err(Utf8Error)
        ELSE IF ~author.ok THEN author
        ELSE IF ~committer.ok THEN committer
        ELSE Ok([id        |-> OidToString(commit.oid),
                 short_id  |-> Unwrap(commit.shortId.val),
                 message   |-> TrimEnd(Unwrap(commit.message)),
                 author    |-> author.val,
                 committer |-> committer.val,
                 time      |-> commit.time])

\* Tag::target followed by Object::into_commit, in the annotated converter:
\* a missing target is a git2 error, and so is a target that is no commit.
TagTargetCommit(repo, tag) ==
    IF tag.target \notin DOMAIN repo.objects THEN Err(GitError)
    ELSE IF repo.objects[tag.target].kind # "commit" THEN Err(GitError)
    ELSE Ok(repo.objects[tag.target])

\* AnnotatedTagTryFrom with the name and version read before the target type
\* is checked
AnnotatedTagTryFrom_NameFirst(repo, tag) ==
    IF ~IsSome(tag.name) THEN Err(Utf8Error)
    ELSE
      LET name    == Unwrap(tag.name)
          version == VersionParse(StripV(name))
          tagger  == IF IsSome(tag.tagger)
                     THEN SignatureTryFrom(Unwrap(tag.tagger))
                     ELSE Ok(None)
          target  == TagTargetCommit(repo, tag)
          commit  == IF target.ok THEN CommitTryFrom(target.val) ELSE target
      IN  IF ~version.ok THEN version
          ELSE IF tag.targetType # "commit" THEN Err(InvalidTag)
          ELSE IF ~tagger.ok THEN tagger
          ELSE IF ~target.ok THEN target
          ELSE IF ~commit.ok THEN commit
          ELSE Ok([id      |-> OidToString(tag.oid),
                   message |-> tag.message,
                   name    |-> name,
                   version |-> version.val,
                   tagger  |-> IF IsSome(tag.tagger) THEN Some(tagger.val) ELSE None,
                   commit  |-> commit.val])

\* TryFrom<git2::Tag> for Tag. A raw tag object is
\* [kind, oid, targetType, name : Option<text>, message : Option<text>,
\*  tagger : Option<raw signature>, target : oid].
AnnotatedTagTryFrom(repo, tag) ==
    IF tag.targetType # "commit" THEN Err(InvalidTag)
    ELSE IF ~IsSome(tag.name) THEN Err(Utf8Error)
    ELSE
      LET name    == Unwrap(tag.name)
          version == VersionParse(StripV(name))
          tagger  == IF IsSome(tag.tagger)
                     THEN SignatureTryFrom(Unwrap(tag.tagger))
                     ELSE Ok(None)
          target  == TagTargetCommit(repo, tag)
          commit  == IF target.ok THEN CommitTryFrom(target.val) ELSE target
      IN  IF ~version.ok THEN version
          ELSE IF ~tagger.ok THEN tagger
          ELSE IF ~target.ok THEN target
          ELSE IF ~commit.ok THEN commit
          ELSE Ok([id      |-> OidToString(tag.oid),
                   message |-> tag.message,
                   name    |-> name,
                   version |-> version.val,
                   tagger  |-> IF IsSome(tag.tagger) THEN Some(tagger.val) ELSE None,
                   commit  |-> commit.val])

\* LightweightTagTryFrom with the tagger taken from the committer
LightweightTagTryFrom_CommitterAsTagger(name, commit) ==
    LET version == VersionParse(StripV(name))
        tagger  == SignatureTryFrom(commit.committer)
        c       == CommitTryFrom(commit)
    IN  IF ~version.ok THEN version
        ELSE IF ~tagger.ok THEN tagger
        ELSE IF ~c.ok THEN c
        ELSE Ok([id      |-> OidToString(commit.oid),
                 message |-> None,
                 name    |-> name,
                 version |-> version.val,
                 tagger  |-> Some(tagger.val),
                 commit  |-> c.val])

\* TryFrom<(&str, git2::Commit)> for Tag
LightweightTagTryFrom(name, commit) ==
    LET version == VersionParse(StripV(name))
        tagger  == SignatureTryFrom(commit.author)
        c       == CommitTryFrom(commit)
    IN  IF ~version.ok THEN version
        ELSE IF ~tagger.ok THEN tagger
        ELSE IF ~c.ok THEN c
        ELSE Ok([id      |-> OidToString(commit.oid),
                 message |-> None,
                 name    |-> name,
                 version |-> version.val,
                 tagger  |-> Some(tagger.val),
                 commit  |-> c.val])

\* ------------------------------------------------------------------------
\* Repositories (what the git2::Repository handle answers)
\* ------------------------------------------------------------------------

Alice == [name |-> Some("alice"), email |-> Some("alice@example.org"), when |-> 10]

Bob == [name |-> Some("bob"), email |-> Some("bob@example.org"), when |-> 20]

Carol == [name |-> Some("carol"), email |-> Some("carol@example.org"), when |-> 30]

\* a signature whose name bytes are not valid UTF-8
NoNameSig == [name |-> None, email |-> Some("x@example.org"), when |-> 40]

\* a signature whose email bytes are not valid UTF-8
NoEmailSig == [name |-> Some("dave"), email |-> None, when |-> 50]

\* the shapes of commit object a generated graph is built from
CommitShapes == {"ok", "badMessage", "badAuthor", "badCommitter", "gitErr", "unreadable"}

\* the commit object with id oid, the given parents, and the defects of `shape`:
\*   badMessage    message bytes are not valid UTF-8
\*   badAuthor     author name is not valid UTF-8
\*   badCommitter  committer email is not valid UTF-8
\*   gitErr        Object::short_id fails in the object database (and the
\*                 message is not valid UTF-8 either)
\*   unreadable    the revision walker cannot parse the object
RawCommit(oid, parents, shape) ==
    [kind      |-> "commit",
     oid       |-> oid,
     parents   |-> parents,
     shortId   |-> IF shape = "gitErr" THEN Err(GitError)
                   ELSE Ok(Some(SubSeq(OidToString(oid), 1, 1))),
     message   |-> IF shape \in {"badMessage", "gitErr"} THEN None
                   ELSE Some(<<"f", "i", "x", " ", OidToString(oid)[1], "\n", "\n">>),
     author    |-> IF shape = "badAuthor" THEN NoNameSig ELSE Alice,
     committer |-> IF shape = "badCommitter" THEN NoEmailSig ELSE Carol,
     time      |-> 30 + oid,
     readable  |-> shape # "unreadable"]

\* the object id of the i-th generated commit
CommitOid(i) == 17 * i

CommitIndex(oid) == oid \div 17

\* parent lists commit i of a generated graph may have: the first commit is
\* the root, every other commit has one or two distinct older parents, the
\* first parent first
ParentChoices(i) ==
    IF i = 1 THEN {<<>>}
    ELSE {<<CommitOid(p)>> : p \in 1..(i - 1)}
         \cup {<<CommitOid(p), CommitOid(q)>> : <<p, q>> \in
                  {pq \in (1..(i - 1)) \X (1..(i - 1)) : pq[1] # pq[2]}}

\* the repository of n commits with the given parents and shapes, head at the
\* newest commit and no tag refs; without commits the head is unborn
CommitRepo(n, par, shp) ==
    [objects    |-> [o \in {CommitOid(i) : i \in 1..n} |->
                        LET i == CommitIndex(o) IN RawCommit(o, par[i], shp[i])],
     head       |-> IF n = 0 THEN None ELSE Some(CommitOid(n)),
     refs       |-> <<>>,
     tagNamesOk |-> TRUE]

\* the parent assignments of a graph of n commits
ParentMaps(n) ==
    {f \in [1..n -> UNION {ParentChoices(i) : i \in 1..n}] :
        \A i \in 1..n : f[i] \in ParentChoices(i)}

\* tag and ref names
NameV100 == <<"v", "1", ".", "0", ".", "0">>

Name100 == <<"1", ".", "0", ".", "0">>

NameV100rc1 == <<"v", "1", ".", "0", ".", "0", "-", "r", "c", ".", "1">>

NameV0100 == <<"v", "0", ".", "1", "0", ".", "0">>

NameV020 == <<"v", "0", ".", "2", ".", "0">>

NameVV100 == <<"v", "v", "1", ".", "0", ".", "0">>

NameNotAVersion == <<"n", "o", "t", "-", "a", "-", "v", "e", "r", "s", "i", "o", "n">>

RawTag(oid, targetType, name, message, tagger, target) ==
    [kind |-> "tag", oid |-> oid, targetType |-> targetType, name |-> name,
     message |-> message, tagger |-> tagger, target |-> target]

\* the object id of the i-th annotated tag object of the shared store
TagOid(i) == 160 + i

\* the object ids of the store the tag repositories share
OidGood == CommitOid(1)

OidBadAuthor == CommitOid(2)

OidGitErr == CommitOid(3)

OidTagGood == TagOid(1)

OidTagNoTagger == TagOid(2)

OidTagBadTagger == TagOid(3)

OidTagNotSemver == TagOid(4)

OidTagNoName == TagOid(5)

OidTagTree == TagOid(6)

OidTagTreeNoName == TagOid(7)

OidTagBadCommit == TagOid(8)

OidTagDangling == TagOid(9)

OidTree == CommitOid(13)

\* an id no object of the store has
OidMissing == CommitOid(15)

\* the object store of the tag repositories: three commits, annotated tag
\* objects of every shape the converter distinguishes, and a tree
TagStore ==
    (OidGood      :> RawCommit(OidGood, <<>>, "ok")) @@
    (OidBadAuthor :> RawCommit(OidBadAuthor, <<OidGood>>, "badAuthor")) @@
    (OidGitErr    :> RawCommit(OidGitErr, <<OidGood>>, "gitErr")) @@
    (OidTagGood   :> RawTag(OidTagGood, "commit", Some(NameV0100),
                            Some(<<"r", "e", "l", "\n">>), Some(Bob), OidGood)) @@
    (OidTagNoTagger :> RawTag(OidTagNoTagger, "commit", Some(NameV100),
                              None, None, OidGood)) @@
    (OidTagBadTagger :> RawTag(OidTagBadTagger, "commit", Some(NameV020),
                               None, Some(NoEmailSig), OidGood)) @@
    (OidTagNotSemver :> RawTag(OidTagNotSemver, "commit", Some(NameNotAVersion),
                               None, Some(Bob), OidGood)) @@
    (OidTagNoName :> RawTag(OidTagNoName, "commit", None, None, Some(Bob), OidGood)) @@
    (OidTagTree   :> RawTag(OidTagTree, "tree", Some(NameV020),
                            None, Some(Bob), OidTree)) @@
    (OidTagTreeNoName :> RawTag(OidTagTreeNoName, "tree", None,
                                None, Some(Bob), OidTree)) @@
    (OidTagBadCommit :> RawTag(OidTagBadCommit, "commit", Some(NameV020),
                               None, Some(Bob), OidBadAuthor)) @@
    (OidTagDangling :> RawTag(OidTagDangling, "commit", Some(NameV020),
                              None, Some(Bob), OidMissing)) @@
    (OidTree      :> [kind |-> "tree", oid |-> OidTree])

\* names of lightweight refs at the good commit
LightNames == {NameV100, Name100, NameV100rc1, NameV0100, NameV020,
               NameVV100, NameNotAVersion}

\* the tag refs a generated repository may hold. A ref is
\* [name : Option<text> (None: the name is not valid UTF-8),
\*  target : Option<oid> (None: the name does not resolve)].
RefChoices ==
    {[name |-> Some(n), target |-> Some(OidGood)] : n \in LightNames}
    \cup {[name |-> Some(n), target |-> t] :
             n \in {NameV100, NameNotAVersion},
             t \in {Some(o) : o \in DOMAIN TagStore} \cup {None}}
    \cup {[name |-> None, target |-> Some(o)] : o \in {OidGood, OidTagTree}}

\* ref names are unique within a repository
UniqueNames(refs) ==
    \A i, j \in 1..Len(refs) :
        (i # j /\ IsSome(refs[i].name)) => refs[i].name # refs[j].name

\* the ref lists of up to MaxRefs tag refs, in enumeration order
RefLists ==
    {r \in UNION {[1..k -> RefChoices] : k \in 0..MaxRefs} : UniqueNames(r)}

\* the repository over TagStore with the given tag refs; tagNamesOk is FALSE
\* when the tag refs cannot be enumerated
TagRepo(refs, tagNamesOk) ==
    [objects |-> TagStore, head |-> Some(OidGood), refs |-> refs,
     tagNamesOk |-> tagNamesOk]

\* ------------------------------------------------------------------------
\* Repository access
\* ------------------------------------------------------------------------

\* the commits from oid back along first parents, newest first
RECURSIVE FirstParentChain(_, _)
FirstParentChain(repo, oid) ==
    LET parents == repo.objects[oid].parents
    IN  IF parents = <<>> THEN <<oid>>
        ELSE <<oid>> \o FirstParentChain(repo, parents[1])

Reverse(s) == [i \in 1..Len(s) |-> s[Len(s) + 1 - i]]

\* Revwalk without Sort::REVERSE: newest first
Revwalk_NotReversed(repo) ==
    LET chain == FirstParentChain(repo, Unwrap(repo.head))
    IN  IF \E i \in 1..Len(chain) : ~repo.objects[chain[i]].readable
        THEN <<Err(GitError)>>
        ELSE [i \in 1..Len(chain) |-> Ok(chain[i])]

\* what the walker of `commits` yields after push_head, simplify_first_parent
\* and set_sorting(REVERSE | TOPOLOGICAL): the first-parent line of head,
\* oldest first, each item Ok(oid); the sorted walk is prepared on the first
\* call of next, so an object the walker cannot parse makes that call yield
\* an error
Revwalk(repo) ==
    LET chain == FirstParentChain(repo, Unwrap(repo.head))
    IN  IF \E i \in 1..Len(chain) : ~repo.objects[chain[i]].readable
        THEN <<Err(GitError)>>
        ELSE [i \in 1..Len(chain) |-> Ok(Reverse(chain)[i])]

\* Repository::find_commit
FindCommit(repo, oid) ==
    IF oid \in DOMAIN repo.objects /\ repo.objects[oid].kind = "commit"
    THEN Ok(repo.objects[oid])
    ELSE Err(GitError)

\* Repository::tag_names(None), as the iterator of Option<&str> it becomes
TagNames(repo) == [i \in 1..Len(repo.refs) |-> repo.refs[i].name]

\* Repository::revparse_single of a tag name
RevparseSingle(repo, name) ==
    LET ref == repo.refs[CHOOSE i \in 1..Len(repo.refs) : repo.refs[i].name = Some(name)]
    IN  IF IsSome(ref.target) /\ Unwrap(ref.target) \in DOMAIN repo.objects
        THEN Ok(repo.objects[Unwrap(ref.target)])
        ELSE Err(GitError)

\* ------------------------------------------------------------------------
\* commits(): the closures of the iterator chain
\* ------------------------------------------------------------------------

\* the `map` closure: Ok(commit) or Err((Option<oid>, error))
CommitEntry(repo, result) ==
    IF ~result.ok THEN Err([id |-> None, err |-> result.err])
    ELSE LET oid    == result.val
             found  == FindCommit(repo, oid)
             commit == IF found.ok THEN CommitTryFrom(found.val) ELSE found
         IN  IF commit.ok THEN commit
             ELSE Err([id |-> Some(oid), err |-> commit.err])

\* the eprintln! line of a skipped commit
CommitDiag(id, err) ==
    [what |-> "commit",
     id   |-> IF IsSome(id) THEN OidToString(Unwrap(id)) ELSE <<>>,
     err  |-> err]

\* CommitFilter as `filter_map(Result::ok)`: every failure is dropped
CommitFilter_DropsErrors(result) ==
    IF result.ok THEN [out |-> Some(Ok(result.val)), diag |-> <<>>]
    ELSE [out |-> None, diag |-> <<>>]

\* the `filter_map` closure: the item handed on to collect (None: nothing)
\* and the diagnostic lines written
CommitFilter(result) ==
    IF result.ok THEN [out |-> Some(Ok(result.val)), diag |-> <<>>]
    ELSE IF result.err.err = Utf8Error
         THEN [out |-> None, diag |-> <<CommitDiag(result.err.id, result.err.err)>>]
         ELSE [out |-> Some(Err(result.err.err)), diag |-> <<>>]

\* ------------------------------------------------------------------------
\* tags(): the closures of the iterator chain
\* ------------------------------------------------------------------------

\* the value standing for a panic of the `map` closure (unreachable!())
Panicked == [panic |-> TRUE]

\* the `map` closure: Ok(tag), Err((Option<name>, error)), or a panic
TagEntry(repo, string) ==
    IF ~IsSome(string) THEN Err([name |-> None, err |-> Utf8Error])
    ELSE LET name   == Unwrap(string)
             object == RevparseSingle(repo, name)
         IN  IF ~object.ok THEN Err([name |-> Some(name), err |-> object.err])
             ELSE IF object.val.kind \notin {"tag", "commit"} THEN Panicked
             ELSE LET tag == IF object.val.kind = "tag"
                             THEN AnnotatedTagTryFrom(repo, object.val)
                             ELSE LightweightTagTryFrom(name, object.val)
                  IN  IF tag.ok THEN tag
                      ELSE Err([name |-> Some(name), err |-> tag.err])

\* TagDiag that prints the default instead of the name it was given
TagDiag_NoName(name, err) == [what |-> "tag", id |-> <<>>, err |-> err]

\* the eprintln! line of a skipped tag
TagDiag(name, err) ==
    [what |-> "tag",
     id   |-> IF IsSome(name) THEN Unwrap(name) ELSE <<>>,
     err  |-> err]

\* TagFilter that skips on Utf8Error alone
TagFilter_SemVerFatal(result) ==
    IF result.ok THEN [out |-> Some(Ok(result.val)), diag |-> <<>>]
    ELSE IF result.err.err = Utf8Error
         THEN [out |-> None, diag |-> <<TagDiag(result.err.name, result.err.err)>>]
         ELSE [out |-> Some(Err(result.err.err)), diag |-> <<>>]

\* the `filter_map` closure
TagFilter(result) ==
    IF result.ok THEN [out |-> Some(Ok(result.val)), diag |-> <<>>]
    ELSE IF result.err.err \in {Utf8Error, SemVerError}
         THEN [out |-> None, diag |-> <<TagDiag(result.err.name, result.err.err)>>]
         ELSE [out |-> Some(Err(result.err.err)), diag |-> <<>>]

\* InsertByVersion of an unstable sort: t goes before the elements equal to it
RECURSIVE InsertByVersion_Unstable(_, _)
InsertByVersion_Unstable(sorted, t) ==
    IF sorted = <<>> THEN <<t>>
    ELSE IF VersionCmp(sorted[Len(sorted)].version, t.version) # Less
         THEN Append(InsertByVersion_Unstable(SubSeq(sorted, 1, Len(sorted) - 1), t),
                     sorted[Len(sorted)])
         ELSE Append(sorted, t)

\* one insertion of the stable sort: t goes after every element that does
\* not compare Greater than it
RECURSIVE InsertByVersion(_, _)
InsertByVersion(sorted, t) ==
    IF sorted = <<>> THEN <<t>>
    ELSE IF VersionCmp(sorted[Len(sorted)].version, t.version) = Greater
         THEN Append(InsertByVersion(SubSeq(sorted, 1, Len(sorted) - 1), t),
                     sorted[Len(sorted)])
         ELSE Append(sorted, t)

\* tags.sort_by(|a, b| a.version.cmp(&b.version)): slice::sort_by is stable
RECURSIVE SortByVersion(_)
SortByVersion(tags) ==
    IF tags = <<>> THEN <<>>
    ELSE InsertByVersion(SortByVersion(SubSeq(tags, 1, Len(tags) - 1)), tags[Len(tags)])

\* ------------------------------------------------------------------------
\* State
\* ------------------------------------------------------------------------

VARIABLES
    repo,     \* the repository the call reads
    pc,       \* "idle", then the function called: "commits" or "tags"
    walk,     \* commits: the items the revision walker yields
    names,    \* tags: the items of tag_names
    pos,      \* number of items the iterator chain has pulled
    acc,      \* the Vec that collect is building
    diag,     \* the lines written to stderr
    lookups,  \* the ids and names looked up in the repository, in order
    ret       \* what the caller gets

vars == <<repo, pc, walk, names, pos, acc, diag, lookups, ret>>

\* the call has not ended
NoRet == [tag |-> "None"]

RetOk(v) == [tag |-> "Ok", val |-> v]

RetErr(e) == [tag |-> "Err", err |-> e]

\* the call ended by unwinding
RetPanic == [tag |-> "Panic"]

Init ==
    /\ \/ \E n \in 0..MaxCommits : \E par \in ParentMaps(n) :
             \E shp \in [1..n -> CommitShapes] : repo = CommitRepo(n, par, shp)
       \/ \E refs \in RefLists : repo = TagRepo(refs, TRUE)
       \/ repo = TagRepo(<<>>, FALSE)
    /\ pc = "idle"
    /\ walk = <<>>
    /\ names = <<>>
    /\ pos = 0
    /\ acc = <<>>
    /\ diag = <<>>
    /\ lookups = <<>>
    /\ ret = NoRet

\* commits(): revwalk, push_head, simplify_first_parent, set_sorting, each
\* followed by `?`
CallCommits ==
    /\ pc = "idle"
    /\ pc' = "commits"
    /\ IF IsSome(repo.head)
       THEN walk' = Revwalk(repo) /\ ret' = ret
       ELSE walk' = walk /\ ret' = RetErr(GitError)
    /\ UNCHANGED <<repo, names, pos, acc, diag, lookups>>

\* CommitsNext of a collect that does not stop at the first Err
CommitsNext_NoShortCircuit ==
    /\ pc = "commits"
    /\ pos < Len(walk)
    /\ LET result == walk[pos + 1]
           f      == CommitFilter(CommitEntry(repo, result))
       IN  /\ pos' = pos + 1
           /\ lookups' = IF result.ok THEN Append(lookups, result.val) ELSE lookups
           /\ diag' = diag \o f.diag
           /\ acc' = IF IsSome(f.out) /\ Unwrap(f.out).ok
                     THEN Append(acc, Unwrap(f.out).val)
                     ELSE acc
           /\ ret' = IF ret = NoRet /\ IsSome(f.out) /\ ~Unwrap(f.out).ok
                     THEN RetErr(Unwrap(f.out).err)
                     ELSE ret
    /\ UNCHANGED <<repo, pc, walk, names>>

\* collect pulls one item through filter_map and map from the walker
CommitsNext ==
    /\ pc = "commits"
    /\ ret = NoRet
    /\ pos < Len(walk)
    /\ LET result == walk[pos + 1]
           f      == CommitFilter(CommitEntry(repo, result))
       IN  /\ pos' = pos + 1
           /\ lookups' = IF result.ok THEN Append(lookups, result.val) ELSE lookups
           /\ diag' = diag \o f.diag
           /\ acc' = IF IsSome(f.out) /\ Unwrap(f.out).ok
                     THEN Append(acc, Unwrap(f.out).val)
                     ELSE acc
           /\ ret' = IF IsSome(f.out) /\ ~Unwrap(f.out).ok
                     THEN RetErr(Unwrap(f.out).err)
                     ELSE ret
    /\ UNCHANGED <<repo, pc, walk, names>>

\* the walker is exhausted: collect returns the Vec
CommitsCollect ==
    /\ pc = "commits"
    /\ ret = NoRet
    /\ pos = Len(walk)
    /\ ret' = RetOk(acc)
    /\ UNCHANGED <<repo, pc, walk, names, pos, acc, diag, lookups>>

\* tags(): repo.tag_names(None)?
CallTags ==
    /\ pc = "idle"
    /\ pc' = "tags"
    /\ IF repo.tagNamesOk
       THEN names' = TagNames(repo) /\ ret' = ret
       ELSE names' = names /\ ret' = RetErr(GitError)
    /\ UNCHANGED <<repo, walk, pos, acc, diag, lookups>>

\* collect pulls one item through filter_map and map from the names
TagsNext ==
    /\ pc = "tags"
    /\ ret = NoRet
    /\ pos < Len(names)
    /\ LET string == names[pos + 1]
           result == TagEntry(repo, string)
           f      == TagFilter(result)
       IN  /\ pos' = pos + 1
           /\ lookups' = IF IsSome(string) THEN Append(lookups, Unwrap(string)) ELSE lookups
           /\ IF result = Panicked
              THEN diag' = diag /\ acc' = acc /\ ret' = RetPanic
              ELSE /\ diag' = diag \o f.diag
                   /\ acc' = IF IsSome(f.out) /\ Unwrap(f.out).ok
                             THEN Append(acc, Unwrap(f.out).val)
                             ELSE acc
                   /\ ret' = IF IsSome(f.out) /\ ~Unwrap(f.out).ok
                             THEN RetErr(Unwrap(f.out).err)
                             ELSE ret
    /\ UNCHANGED <<repo, pc, walk, names>>

\* the names are exhausted: collect returns the Vec, which is sorted and
\* returned
TagsSort ==
    /\ pc = "tags"
    /\ ret = NoRet
    /\ pos = Len(names)
    /\ ret' = RetOk(SortByVersion(acc))
    /\ UNCHANGED <<repo, pc, walk, names, pos, acc, diag, lookups>>

Next ==
    \/ CallCommits
    \/ CommitsNext
    \/ CommitsCollect
    \/ CallTags
    \/ TagsNext
    \/ TagsSort

Spec == Init /\ [][Next]_vars

\* ------------------------------------------------------------------------
\* Vocabulary of the properties
\* ------------------------------------------------------------------------

CommitsDone == pc = "commits" /\ ret # NoRet

TagsDone == pc = "tags" /\ ret # NoRet

\* the items of the running call's traversal
Items == IF pc = "commits" THEN walk ELSE names

\* what converting the i-th item of the traversal gives
EntryAt(i) ==
    IF pc = "commits" THEN CommitEntry(repo, walk[i]) ELSE TagEntry(repo, names[i])

EntryPanics(i) == EntryAt(i) = Panicked

EntryKept(i) == ~EntryPanics(i) /\ EntryAt(i).ok

\* the failure kinds the running call recovers from
Recoverable == IF pc = "commits" THEN {Utf8Error} ELSE {Utf8Error, SemVerError}

EntrySkipped(i) ==
    ~EntryPanics(i) /\ ~EntryAt(i).ok /\ EntryAt(i).err.err \in Recoverable

EntryFatal(i) ==
    ~EntryPanics(i) /\ ~EntryAt(i).ok /\ EntryAt(i).err.err \notin Recoverable

\* the text that names the i-th item, <<>> when it has none
EntryLabel(i) ==
    IF pc = "commits"
    THEN IF walk[i].ok THEN OidToString(walk[i].val) ELSE <<>>
    ELSE IF IsSome(names[i]) THEN Unwrap(names[i]) ELSE <<>>

\* the key the i-th item is looked up by in the repository, None when the
\* item carries none
EntryKey(i) ==
    IF pc = "commits"
    THEN IF walk[i].ok THEN Some(walk[i].val) ELSE None
    ELSE names[i]

\* the values of the kept entries among the first n items, in traversal order
RECURSIVE KeptUpTo(_)
KeptUpTo(n) ==
    IF n = 0 THEN <<>>
    ELSE IF EntryKept(n) THEN Append(KeptUpTo(n - 1), EntryAt(n).val)
    ELSE KeptUpTo(n - 1)

\* the diagnostic lines of the skipped entries among the first n items
RECURSIVE SkipLinesUpTo(_)
SkipLinesUpTo(n) ==
    IF n = 0 THEN <<>>
    ELSE IF EntrySkipped(n)
         THEN Append(SkipLinesUpTo(n - 1),
                     [what |-> IF pc = "commits" THEN "commit" ELSE "tag",
                      id   |-> EntryLabel(n),
                      err  |-> EntryAt(n).err.err])
         ELSE SkipLinesUpTo(n - 1)

\* the keys of the first n items that carry one
RECURSIVE KeysUpTo(_)
KeysUpTo(n) ==
    IF n = 0 THEN <<>>
    ELSE IF IsSome(EntryKey(n)) THEN Append(KeysUpTo(n - 1), Unwrap(EntryKey(n)))
    ELSE KeysUpTo(n - 1)

\* how often x occurs in s
Count(s, x) == Cardinality({i \in 1..Len(s) : s[i] = x})

\* s and t hold the same elements, each as often
SameBag(s, t) ==
    /\ Len(s) = Len(t)
    /\ \A i \in 1..Len(s) : Count(s, s[i]) = Count(t, s[i])

\* ------------------------------------------------------------------------
\* C10
\* ------------------------------------------------------------------------

\* C10: in commits() and in tags(), processing stops at the first entry, in
\* traversal order, whose conversion fails with a fatal kind: no entry that
\* precedes the last one pulled is fatal, a fatal entry ends the call in the
\* step that pulls it with that entry's error unchanged, nothing after it is
\* looked up in the repository, and the diagnostic stream holds exactly one
\* line for every skipped entry pulled so far and no other line.
C10_StopsAtFirstFatal ==
    pc \in {"commits", "tags"} =>
        /\ pos <= Len(Items)
        /\ \A i \in 1..(pos - 1) : ~EntryFatal(i) /\ ~EntryPanics(i)
        /\ (pos >= 1 /\ EntryFatal(pos)) => ret = RetErr(EntryAt(pos).err.err)
        /\ (ret.tag = "Err" /\ pos >= 1) => EntryFatal(pos)
        /\ lookups = KeysUpTo(pos)
        /\ diag = SkipLinesUpTo(pos)

\* a call that skipped an entry, then met a fatal one with entries left
C10_Witness ==
    /\ pc \in {"commits", "tags"}
    /\ ret.tag = "Err"
    /\ pos >= 2
    /\ pos < Len(Items)
    /\ \E i \in 1..(pos - 1) : EntrySkipped(i)

\* ------------------------------------------------------------------------
\* C1
\* ------------------------------------------------------------------------

\* the commits on the first-parent line that ends at oid
RECURSIVE LineTo(_)
LineTo(oid) ==
    LET parents == repo.objects[oid].parents
    IN  IF parents = <<>> THEN {oid} ELSE {oid} \cup LineTo(parents[1])

HeadLine == IF IsSome(repo.head) THEN LineTo(Unwrap(repo.head)) ELSE {}

CommitOids == {o \in DOMAIN repo.objects : repo.objects[o].kind = "commit"}

SigTextValid(sig) == IsSome(sig.name) /\ IsSome(sig.email)

\* message, author and committer (and the abbreviated id) are valid UTF-8
CommitTextValid(c) ==
    /\ IsSome(c.message)
    /\ SigTextValid(c.author)
    /\ SigTextValid(c.committer)
    /\ (c.shortId.ok => IsSome(c.shortId.val))

\* the commit fails with something else than Utf8Error: the walker cannot
\* parse it, or the object database fails on it
CommitFailsFatally(c) == ~c.readable \/ ~c.shortId.ok

\* the commit object a converted commit came from
OidOfCommit(commit) == CHOOSE o \in CommitOids : OidToString(o) = commit.id

\* C1: when the head exists and no commit on its first-parent line fails with
\* a failure other than Utf8Error, commits() returns Ok with exactly the
\* commits of that line whose text is valid, each once and as the converter
\* gives it, and every other commit (off the line, or with invalid text)
\* absent; a commit precedes another in the result only if it is a
\* first-parent ancestor of it (oldest first).
C1_FirstParentLine ==
    (/\ CommitsDone
     /\ IsSome(repo.head)
     /\ \A o \in HeadLine : ~CommitFailsFatally(repo.objects[o]))
    => /\ ret.tag = "Ok"
       /\ \A k \in 1..Len(ret.val) :
             /\ \E o \in CommitOids : OidToString(o) = ret.val[k].id
             /\ Ok(ret.val[k]) = CommitTryFrom(repo.objects[OidOfCommit(ret.val[k])])
       /\ \A o \in CommitOids :
             Cardinality({k \in 1..Len(ret.val) : ret.val[k].id = OidToString(o)})
                 = IF o \in HeadLine /\ CommitTextValid(repo.objects[o]) THEN 1 ELSE 0
       /\ \A i, j \in 1..Len(ret.val) :
             i < j => /\ OidOfCommit(ret.val[i]) # OidOfCommit(ret.val[j])
                      /\ OidOfCommit(ret.val[i]) \in LineTo(OidOfCommit(ret.val[j]))

\* a walk over a merge: both commits of the line are returned, and the second
\* parent, whose text is valid, is not
C1_Witness ==
    /\ CommitsDone
    /\ ret.tag = "Ok"
    /\ Len(ret.val) = 2
    /\ \E o \in HeadLine :
          /\ Len(repo.objects[o].parents) = 2
          /\ repo.objects[o].parents[2] \notin HeadLine
          /\ CommitTextValid(repo.objects[repo.objects[o].parents[2]])
          /\ ~CommitFailsFatally(repo.objects[repo.objects[o].parents[2]])

\* ------------------------------------------------------------------------
\* C2
\* ------------------------------------------------------------------------

\* the object the i-th tag ref resolves to
RefObject(i) == repo.objects[Unwrap(repo.refs[i].target)]

\* the name, less one leading "v" if it has one, is a semantic version
NameParses(name) ==
    VersionParse(IF name # <<>> /\ Head(name) = "v" THEN Tail(name) ELSE name).ok

\* the i-th tag ref is one the collector leaves out: its name is not valid
\* UTF-8, the name it is converted under is not valid UTF-8 or no semantic
\* version, or its tagger or target commit holds invalid text
RefLeftOut(i) ==
    \/ ~IsSome(names[i])
    \/ /\ RefObject(i).kind = "commit"
       /\ \/ ~NameParses(Unwrap(names[i]))
          \/ ~CommitTextValid(RefObject(i))
    \/ /\ RefObject(i).kind = "tag"
       /\ \/ ~IsSome(RefObject(i).name)
          \/ ~NameParses(Unwrap(RefObject(i).name))
          \/ IsSome(RefObject(i).tagger) /\ ~SigTextValid(Unwrap(RefObject(i).tagger))
          \/ ~CommitTextValid(repo.objects[RefObject(i).target])

\* C2: when the tag names can be enumerated and no tag ref fails fatally,
\* tags() returns Ok with exactly one Tag for every enumerated ref whose
\* conversion succeeds; the refs whose name is not valid UTF-8 or whose
\* conversion fails with Utf8Error or a version parse failure are left out.
C2_OneTagPerGoodRef ==
    (/\ TagsDone
     /\ repo.tagNamesOk
     /\ \A i \in 1..Len(names) : ~EntryFatal(i) /\ ~EntryPanics(i))
    => /\ ret.tag = "Ok"
       /\ SameBag(ret.val, KeptUpTo(Len(names)))
       /\ Len(ret.val) = Cardinality({i \in 1..Len(names) : ~RefLeftOut(i)})
       /\ \A i \in 1..Len(names) : RefLeftOut(i) <=> EntrySkipped(i)

\* a collection that kept one ref and left one out for its version
C2_Witness ==
    /\ TagsDone
    /\ ret.tag = "Ok"
    /\ Len(names) = 2
    /\ Len(ret.val) = 1
    /\ \E i \in 1..2 : IsSome(names[i]) /\ EntrySkipped(i)
                       /\ EntryAt(i).err.err = SemVerError

\* ------------------------------------------------------------------------
\* C3
\* ------------------------------------------------------------------------

\* the one-to-one maps of 1..n onto itself
Rearrangements(n) == {f \in [1..n -> 1..n] : \A i, j \in 1..n : f[i] = f[j] => i = j}

\* C3: whenever tags() returns Ok(seq), seq is ascending by version, and it
\* is the surviving tags in traversal order rearranged without exchanging two
\* tags of the same version.
C3_StableVersionOrder ==
    (TagsDone /\ ret.tag = "Ok") =>
        LET kept == KeptUpTo(Len(names))
            n    == Len(ret.val)
        IN  /\ \A k \in 1..(n - 1) :
                   VersionCmp(ret.val[k].version, ret.val[k + 1].version) # Greater
            /\ Len(kept) = n
            /\ \E f \in Rearrangements(n) :
                   /\ \A i \in 1..n : ret.val[f[i]] = kept[i]
                   /\ \A i, j \in 1..n :
                         (i < j /\ VersionCmp(kept[i].version, kept[j].version) = Equal)
                             => f[i] < f[j]

\* a result in which two different tags have the same version
C3_Witness ==
    /\ TagsDone
    /\ ret.tag = "Ok"
    /\ Len(ret.val) = 2
    /\ ret.val[1] # ret.val[2]
    /\ VersionCmp(ret.val[1].version, ret.val[2].version) = Equal

\* ------------------------------------------------------------------------
\* C4
\* ------------------------------------------------------------------------

\* the i-th tag ref resolves to an object of the store
RefResolves(i) ==
    /\ IsSome(repo.refs[i].target)
    /\ Unwrap(repo.refs[i].target) \in DOMAIN repo.objects

\* the i-th tag ref is an annotated tag object whose target is no commit
NonCommitTag(i) ==
    /\ RefResolves(i)
    /\ RefObject(i).kind = "tag"
    /\ RefObject(i).targetType # "commit"

\* C4, as claimed: an annotated tag object whose target is not a commit is
\* never skipped, whatever its name is (a name that is not valid UTF-8
\* included) and whatever else the repository holds: tags() does not return
\* Ok, and it returns InvalidTag when no earlier ref has ended the call.
C4_NonCommitTagFailsCall ==
    TagsDone =>
        \A i \in 1..Len(repo.refs) :
            NonCommitTag(i) =>
                /\ ret.tag # "Ok"
                /\ (\A j \in 1..(i - 1) : ~EntryFatal(j) /\ ~EntryPanics(j))
                       => ret = RetErr(InvalidTag)

\* C4, amended: an annotated tag object whose target is not a commit, listed
\* under a ref name that is valid UTF-8, is never skipped: tags() does not
\* return Ok, and it returns InvalidTag when no earlier ref has ended the
\* call; this holds whatever name the tag object records. (A ref whose own
\* name is not valid UTF-8 is skipped before it is resolved.)
C4_NonCommitTagNeverSkipped ==
    TagsDone =>
        \A i \in 1..Len(repo.refs) :
            (NonCommitTag(i) /\ IsSome(names[i])) =>
                /\ ret.tag # "Ok"
                /\ (\A j \in 1..(i - 1) : ~EntryFatal(j) /\ ~EntryPanics(j))
                       => ret = RetErr(InvalidTag) /\ pos = i

\* tags() failed with InvalidTag on a tag object that records no valid name,
\* after a tag had been collected
C4_Witness ==
    /\ TagsDone
    /\ ret = RetErr(InvalidTag)
    /\ Len(acc) >= 1
    /\ NonCommitTag(pos)
    /\ ~IsSome(RefObject(pos).name)

\* ------------------------------------------------------------------------
\* C5
\* ------------------------------------------------------------------------

BadVersionEntry(i) ==
    /\ IsSome(names[i])
    /\ RefResolves(i)
    /\ \/ /\ RefObject(i).kind = "commit"
          /\ ~NameParses(Unwrap(names[i]))
       \/ /\ RefObject(i).kind = "tag"
          /\ RefObject(i).targetType = "commit"
          /\ IsSome(RefObject(i).name)
          /\ ~NameParses(Unwrap(RefObject(i).name))

C6_NoPartialResult ==
    (pc \in {"commits", "tags"} /\ ret # NoRet) =>
        /\ (\E i \in 1..Len(Items) : EntryFatal(i)) =>
               \/ ret \in {RetErr(e) : e \in {GitError, InvalidTag}}
               \/ ret = RetPanic
        /\ ret.tag = "Ok" =>
               /\ pos = Len(Items)
               /\ SameBag(ret.val, KeptUpTo(Len(Items)))

\* a call that failed after it had collected an entry
C6_Witness ==
    /\ pc \in {"commits", "tags"}
    /\ ret.tag = "Err"
    /\ Len(acc) >= 1

\* ------------------------------------------------------------------------
\* C7
\* ------------------------------------------------------------------------

C8_TagsAlwaysReturns ==
    TagsDone =>
        /\ ret.tag \in {"Ok", "Err"}
        /\ \A i \in 1..Len(names) :
               (/\ IsSome(names[i])
                /\ RefResolves(i)
                /\ RefObject(i).kind \notin {"tag", "commit"}) => ret.tag = "Err"

\* ------------------------------------------------------------------------
\* C9
\* ------------------------------------------------------------------------

\* the i-th ref is a lightweight tag: its name resolves to a commit
LightweightRef(i) ==
    /\ IsSome(names[i])
    /\ RefResolves(i)
    /\ RefObject(i).kind = "commit"

\* C9: the Tag collected from a lightweight ref has no message, a tagger
\* equal to the author signature of its target commit (the one embedded in
\* the Tag) and the id of that commit; a lightweight ref whose target
\* commit's author is not valid UTF-8 yields no Tag and is skipped; the
\* sequence returned holds the collected tags and no other.
C9_LightweightTag ==
    [][/\ (pc = "tags" /\ pos' = pos + 1 /\ LightweightRef(pos + 1)) =>
            LET c == RefObject(pos + 1)
            IN  /\ acc' # acc =>
                      LET t == acc'[Len(acc')]
                      IN  /\ acc' = Append(acc, t)
                          /\ t.message = None
                          /\ t.tagger = Some([name  |-> Unwrap(c.author.name),
                                              email |-> Unwrap(c.author.email),
                                              time  |-> c.author.when])
                          /\ t.tagger = Some(t.commit.author)
                          /\ t.id = OidToString(c.oid)
                          /\ t.id = t.commit.id
                /\ ~SigTextValid(c.author) => (acc' = acc /\ ret' = NoRet)
       /\ (pc = "tags" /\ ret = NoRet /\ ret'.tag = "Ok") =>
              /\ Len(ret'.val) = Len(acc)
              /\ \A k \in 1..Len(acc) : Count(ret'.val, acc[k]) = Count(acc, acc[k])
      ]_vars

\* a Tag was collected from the lightweight ref "v1.0.0"
C9_Witness ==
    /\ pc = "tags"
    /\ pos >= 1
    /\ LightweightRef(pos)
    /\ names[pos] = Some(NameV100)
    /\ Len(acc) >= 1
    /\ acc[Len(acc)].name = NameV100
    /\ acc[Len(acc)].message = None

====
